---- MODULE Spec2Model ----
(***************************************************************************)
(* Model of the RAG chatbot.                                               *)
(*                                                                         *)
(* Spec: the ingestion side (app/ingestion.py, app/main.py,                *)
(* app/vectorstore.py): the folder scan guarded by _ingestion_lock, the    *)
(* processed-files tracker, direct PDF ingestion and the upload endpoint.  *)
(* LoadSpec: load_processed_files on tracker files with blank and          *)
(* unterminated lines.                                                     *)
(* QuerySpec: query_docs (app/retrieval.py) and answer_question            *)
(* (app/rag_chain.py) against the Milvus collection.                       *)
(* LiveSpec: the interval job running for ever, under weak fairness, over  *)
(* a folder nobody adds files to.                                          *)
(*                                                                         *)
(* Two threads exist in the running process: the APScheduler job thread    *)
(* ("sched", one instance of folder_ingestion_job at a time) and the       *)
(* asyncio event loop that runs the FastAPI handlers ("http").             *)
(***************************************************************************)
EXTENDS Bags, FiniteSets, Integers, Naturals, Sequences, TLC

---------------------------------------------------------------------------
(* Bounds *)

\* ingest_folder calls the two threads may start, in total
MaxCalls == 2
\* /ingest_pdf and /upload_file requests the event loop may serve
MaxRequests == 2
\* chunks the splitter returns for a page that has text
MaxChunks == 2

---------------------------------------------------------------------------
(* File names are character sequences, the tracker is a text file *)

NL == "\n"
SP == " "
Whitespace == {SP, NL, "\t", "\r"}

NameA == <<"a", ".", "p", "d", "f">>
NameSpA == <<SP, "a", ".", "p", "d", "f">>
NameTxt == <<"a", ".", "t", "x", "t">>
PdfSuffix == <<".", "p", "d", "f">>

\* names a request or the folder can carry
Names == {NameA, NameSpA, NameTxt}

Threads == {"sched", "http"}

\* str.lower() on one character of the alphabet in use
LowerChar(c) == CASE c = "P" -> "p" [] c = "D" -> "d" [] c = "F" -> "f"
                  [] c = "A" -> "a" [] OTHER -> c

Lower(s) == [k \in 1..Len(s) |-> LowerChar(s[k])]

EndsWith(s, suffix) ==
    /\ Len(s) >= Len(suffix)
    /\ SubSeq(s, Len(s) - Len(suffix) + 1, Len(s)) = suffix

RECURSIVE LStrip(_)
LStrip(s) == IF s # <<>> /\ Head(s) \in Whitespace THEN LStrip(Tail(s)) ELSE s

RECURSIVE RStrip(_)
RStrip(s) == IF s # <<>> /\ s[Len(s)] \in Whitespace
             THEN RStrip(SubSeq(s, 1, Len(s) - 1)) ELSE s

\* str.strip()
Strip(s) == RStrip(LStrip(s))

\* iterating a text file: the lines of the content, split after each "\n"
RECURSIVE FileLines(_, _)
FileLines(content, cur) ==
    IF content = <<>> THEN (IF cur = <<>> THEN <<>> ELSE <<cur>>)
    ELSE IF Head(content) = NL
         THEN <<Append(cur, NL)>> \o FileLines(Tail(content), <<>>)
         ELSE FileLines(Tail(content), Append(cur, Head(content)))

\* load_processed_files(): {line.strip() for line in f if line.strip()}
LoadProcessedFiles(content) ==
    LET lines == FileLines(content, <<>>)
    IN  {Strip(lines[k]) : k \in {j \in 1..Len(lines) : Strip(lines[j]) # <<>>}}

\* mark_file_as_processed(): f.write(f"{file_name}\n") in append mode
MarkFileAsProcessed(content, file_name) == content \o file_name \o <<NL>>

\* Path.glob("*.pdf") on the names present in the folder
GlobPdf(present) == {n \in present : EndsWith(n, PdfSuffix)}

\* file.filename.lower().endswith(".pdf")
IsPdfName(n) == EndsWith(Lower(n), PdfSuffix)

---------------------------------------------------------------------------
(* PDF contents and ingest_pdf_bytes up to the insert *)

\* page.extract_text() raises on this page
ExtractFails == -1

\* A file's bytes: "pdf" bytes parse into pages, each page being ExtractFails,
\* 0 (extract_text gives None, "" or whitespace) or the number of chunks the
\* splitter returns for its text; "truncated" is a file opened for writing whose
\* bytes are not written yet, on which PdfReader raises.
Absent == [kind |-> "absent", pages |-> <<>>]
Truncated == [kind |-> "truncated", pages |-> <<>>]
DocScanned == [kind |-> "pdf", pages |-> <<0>>]
DocText == [kind |-> "pdf", pages |-> <<MaxChunks, 0>>]
DocBadPage == [kind |-> "pdf", pages |-> <<ExtractFails, 1>>]

\* What a reader finds in a file while f.write(file_bytes) is filling it: no
\* bytes yet, or the first bytes, which PdfReader either rejects or, when they
\* end with an earlier revision of an incrementally saved PDF, reads as the
\* document made of its first pages.
PartialContents(body) ==
    {Truncated} \cup {[kind |-> "pdf", pages |-> SubSeq(body.pages, 1, k)] :
                         k \in 1..(Len(body.pages) - 1)}

\* bodies a client can send
Docs == {DocScanned, DocText, DocBadPage}

\* the Documents built for the chunks of one page
PageChunks(file_name, page_num, n) ==
    [c \in 1..n |-> [chunk_id |-> <<file_name, page_num, c - 1>>,
                     file_name |-> file_name,
                     page_start |-> page_num,
                     page_end |-> page_num,
                     chunk_index |-> c - 1]]

\* the loop over reader.pages, for pages none of which raises
RECURSIVE BuildDocs(_, _, _)
BuildDocs(file_name, pages, page_index) ==
    IF page_index >= Len(pages) THEN <<>>
    ELSE LET n == pages[page_index + 1]
         IN  (IF n <= 0 THEN <<>> ELSE PageChunks(file_name, page_index + 1, n))
             \o BuildDocs(file_name, pages, page_index + 1)

\* ingest_pdf_bytes from PdfReader(...) to the `if not docs` test: either an
\* exception leaves the function or the list docs is complete
ParseAndChunk(file_bytes, file_name) ==
    IF file_bytes.kind # "pdf"
    THEN [raised |-> TRUE, error |-> "PdfReadError", docs |-> <<>>]
    ELSE IF \E k \in 1..Len(file_bytes.pages) : file_bytes.pages[k] = ExtractFails
         THEN [raised |-> TRUE, error |-> "extract_text error", docs |-> <<>>]
         ELSE [raised |-> FALSE, error |-> "",
               docs |-> BuildDocs(file_name, file_bytes.pages, 0)]

\* outcomes of the insert: the batch is written and its length returned, or
\* embedding, connecting or inserting raises and nothing is written
InsertOutcomes == {"ok", "raise"}

\* the rows a batch adds to the collection
RowsOf(docs) == SetToBag({docs[k] : k \in 1..Len(docs)})

\* the collection after collection.insert(entities)
CollectionInsert(collection, docs) == collection (+) RowsOf(docs)

---------------------------------------------------------------------------
(* State *)

VARIABLES
    lock,             \* _ingestion_lock is held
    raw_dir_exists,   \* RAW_FILES_PATH is a directory
    folder,           \* bytes of each file name in RAW_FILES_PATH
    tracker,          \* content of PROCESSED_FILES_TRACKER
    index,            \* rows of the Milvus collection (a bag)
    pc,               \* where each thread is
    processed_files,  \* local of _ingest_folder_impl
    pdf_files,        \* local of _ingest_folder_impl
    idx,              \* position of the for loop in pdf_files
    results,          \* local of _ingest_folder_impl
    docs,             \* local of ingest_pdf_bytes
    ingest_result,    \* what ingest_pdf_bytes returned to the folder scan
    req,              \* the upload the event loop is serving
    ret,              \* what the thread's last call returned
    nCalls,           \* ingest_folder calls started so far, per thread
    nRequests,        \* /ingest_pdf and /upload_file requests served so far
    inserts,          \* batches insert_documents returned normally for, per name
    marked,           \* names mark_file_as_processed has returned for
    has_collection,   \* utility.has_collection(COLLECTION_NAME)
    sparse_order,     \* the chunks with a BM25 score for the question, best first
    query,            \* the arguments of the query_docs call being served
    retrieved_docs,   \* local of answer_question
    llm               \* chains answer_question has created and invoked in this call

vars == <<lock, raw_dir_exists, folder, tracker, index, pc, processed_files,
          pdf_files, idx, results, docs, ingest_result, req, ret, nCalls,
          nRequests, inserts, marked, has_collection, sparse_order, query,
          retrieved_docs, llm>>

shared == <<raw_dir_exists, folder, tracker, index, inserts>>
locals == <<processed_files, pdf_files, idx, results, docs, ingest_result>>
counters == <<nCalls, nRequests>>
query_side == <<has_collection, sparse_order, query, retrieved_docs, llm>>

NoResult == [status |-> "none"]
NoRequest == [name |-> <<>>, body |-> Absent]
NoIngestResult == [file_name |-> <<>>, chunks_indexed |-> 0]
NoFilter == [given |-> FALSE, value |-> <<>>]
NoQuery == [caller |-> "none", top_k |-> 0, file_name_filter |-> NoFilter,
            use_hybrid |-> FALSE, fell_back |-> FALSE]
NoLlm == [created |-> 0, invoked |-> 0]

\* results = {...} at the start of _ingest_folder_impl (timestamp left out)
NewResults ==
    [status |-> "success", processed |-> 0, skipped |-> 0, failed |-> 0,
     files_processed |-> <<>>, files_skipped |-> <<>>, files_failed |-> <<>>]

PdfNames == {n \in Names : IsPdfName(n)}

Init ==
    /\ lock = FALSE
    /\ raw_dir_exists = TRUE
    /\ folder = [n \in PdfNames |-> Absent]
    /\ tracker = <<>>
    /\ index = EmptyBag
    /\ pc = [t \in Threads |-> "idle"]
    /\ processed_files = [t \in Threads |-> {}]
    /\ pdf_files = [t \in Threads |-> <<>>]
    /\ idx = [t \in Threads |-> 0]
    /\ results = [t \in Threads |-> NoResult]
    /\ docs = [t \in Threads |-> <<>>]
    /\ ingest_result = [t \in Threads |-> NoIngestResult]
    /\ req = NoRequest
    /\ ret = [t \in Threads |-> NoResult]
    /\ nCalls = [t \in Threads |-> 0]
    /\ nRequests = 0
    /\ inserts = [n \in PdfNames |-> 0]
    /\ marked = {}
    /\ has_collection = TRUE
    /\ sparse_order = <<>>
    /\ query = NoQuery
    /\ retrieved_docs = <<>>
    /\ llm = NoLlm

---------------------------------------------------------------------------
(* ingest_folder and _ingest_folder_impl, run by either thread *)

\* the orders in which glob can list a set of names
Listings(S) ==
    {l \in [1..Cardinality(S) -> S] : \A a, b \in 1..Cardinality(S) : l[a] = l[b] => a = b}

\* a try-acquire that does not look at the lock
TryAcquireIgnoresLock(held) == TRUE

\* _ingestion_lock.acquire(blocking=False): succeeds iff the lock is free
TryAcquire(held) == ~held

\* a rejected call that falls through into _ingest_folder_impl
RejectedFallsThrough == "impl"

\* where a rejected call continues: it returns to its caller
RejectedPc == "idle"

\* an except clause that leaves the loop
BreakAfterFailure(i, n) == n + 1

\* the for loop after the except clause has recorded a failure
NextIndexAfterFailure(i, n) == i + 1

\* the locals of a call are gone once it has returned
DropLocals(t) ==
    /\ processed_files' = [processed_files EXCEPT ![t] = {}]
    /\ pdf_files' = [pdf_files EXCEPT ![t] = <<>>]
    /\ idx' = [idx EXCEPT ![t] = 0]
    /\ results' = [results EXCEPT ![t] = NoResult]
    /\ docs' = [docs EXCEPT ![t] = <<>>]
    /\ ingest_result' = [ingest_result EXCEPT ![t] = NoIngestResult]

\* the file the for loop is at
CurrentFile(t) == pdf_files[t][idx[t]]

\* ingest_folder calls started so far
TotalCalls == nCalls["sched"] + nCalls["http"]

\* ingest_folder(): the try-acquire, and the return of a rejected call
AcquireOrSkip(t) ==
    /\ pc[t] = "idle"
    /\ IF TryAcquire(lock)
       THEN /\ lock' = TRUE
            /\ pc' = [pc EXCEPT ![t] = "impl"]
            /\ ret' = [ret EXCEPT ![t] = NoResult]
       ELSE /\ lock' = lock
            /\ pc' = [pc EXCEPT ![t] = RejectedPc]
            /\ ret' = [ret EXCEPT ![t] =
                          [status |-> "skipped",
                           message |-> "Previous ingestion still running"]]

\* one of the calls of ingest_folder that are followed
IngestFolder(t) ==
    /\ TotalCalls < MaxCalls
    /\ nCalls' = [nCalls EXCEPT ![t] = @ + 1]
    /\ AcquireOrSkip(t)
    /\ UNCHANGED <<shared, locals, req, nRequests>>
    /\ UNCHANGED <<marked, query_side>>

\* an error return that leaves ingest_folder without releasing the lock
ImplNoDirectoryKeepsLock(t) ==
    /\ pc[t] = "impl"
    /\ ~raw_dir_exists
    /\ ret' = [ret EXCEPT ![t] =
                  [status |-> "error",
                   message |-> "Raw files directory does not exist"]]
    /\ lock' = lock
    /\ pc' = [pc EXCEPT ![t] = "idle"]
    /\ UNCHANGED <<shared, locals, req, counters>>
    /\ UNCHANGED <<marked, query_side>>

\* _ingest_folder_impl when the raw files directory is missing; the finally
\* clause of ingest_folder releases the lock
ImplNoDirectory(t) ==
    /\ pc[t] = "impl"
    /\ ~raw_dir_exists
    /\ ret' = [ret EXCEPT ![t] =
                  [status |-> "error",
                   message |-> "Raw files directory does not exist"]]
    /\ lock' = FALSE
    /\ pc' = [pc EXCEPT ![t] = "idle"]
    /\ UNCHANGED <<shared, locals, req, counters>>
    /\ UNCHANGED <<marked, query_side>>

\* load_processed_files() or glob raises (the tracker cannot be read): the
\* exception leaves ingest_folder through the finally clause
ImplRaises(t) ==
    /\ pc[t] = "impl"
    /\ raw_dir_exists
    /\ ret' = [ret EXCEPT ![t] = [status |-> "raised"]]
    /\ lock' = FALSE
    /\ pc' = [pc EXCEPT ![t] = "idle"]
    /\ UNCHANGED <<shared, locals, req, counters>>
    /\ UNCHANGED <<marked, query_side>>

\* the start of _ingest_folder_impl: load the tracker once, list the PDFs
ImplStart(t) ==
    /\ pc[t] = "impl"
    /\ raw_dir_exists
    /\ processed_files' = [processed_files EXCEPT ![t] = LoadProcessedFiles(tracker)]
    /\ \E l \in Listings(GlobPdf({n \in DOMAIN folder : folder[n] # Absent})) :
           pdf_files' = [pdf_files EXCEPT ![t] = l]
    /\ results' = [results EXCEPT ![t] = NewResults]
    /\ idx' = [idx EXCEPT ![t] = 1]
    /\ pc' = [pc EXCEPT ![t] = "loop"]
    /\ UNCHANGED <<lock, shared, docs, ingest_result, req, ret, counters>>
    /\ UNCHANGED <<marked, query_side>>

\* the except clause: record the failure and go on with the next file
RecordFailure(t, error) ==
    /\ results' = [results EXCEPT
                      ![t].failed = @ + 1,
                      ![t].files_failed =
                          Append(@, [file_name |-> CurrentFile(t), error |-> error])]
    /\ idx' = [idx EXCEPT ![t] = NextIndexAfterFailure(@, Len(pdf_files[t]))]
    /\ docs' = [docs EXCEPT ![t] = <<>>]
    /\ ingest_result' = [ingest_result EXCEPT ![t] = NoIngestResult]
    /\ pc' = [pc EXCEPT ![t] = "loop"]

\* a skip that counts the file without listing its name
LoopSkipUnlisted(t) ==
    /\ pc[t] = "loop"
    /\ idx[t] <= Len(pdf_files[t])
    /\ CurrentFile(t) \in processed_files[t]
    /\ results' = [results EXCEPT ![t].skipped = @ + 1]
    /\ idx' = [idx EXCEPT ![t] = @ + 1]
    /\ UNCHANGED <<lock, shared, pc, processed_files, pdf_files, docs,
                   ingest_result, req, ret, counters>>
    /\ UNCHANGED <<marked, query_side>>

\* a file whose name is in processed_files is skipped
LoopSkip(t) ==
    /\ pc[t] = "loop"
    /\ idx[t] <= Len(pdf_files[t])
    /\ CurrentFile(t) \in processed_files[t]
    /\ results' = [results EXCEPT
                      ![t].skipped = @ + 1,
                      ![t].files_skipped = Append(@, CurrentFile(t))]
    /\ idx' = [idx EXCEPT ![t] = @ + 1]
    /\ UNCHANGED <<lock, shared, pc, processed_files, pdf_files, docs,
                   ingest_result, req, ret, counters>>
    /\ UNCHANGED <<marked, query_side>>

\* read the file and run ingest_pdf_bytes up to the insert
LoopRead(t) ==
    /\ pc[t] = "loop"
    /\ idx[t] <= Len(pdf_files[t])
    /\ CurrentFile(t) \notin processed_files[t]
    /\ LET out == ParseAndChunk(folder[CurrentFile(t)], CurrentFile(t))
       IN  IF out.raised
           THEN RecordFailure(t, out.error)
           ELSE /\ docs' = [docs EXCEPT ![t] = out.docs]
                /\ IF out.docs = <<>>
                   THEN /\ ingest_result' = [ingest_result EXCEPT ![t] =
                               [file_name |-> CurrentFile(t), chunks_indexed |-> 0]]
                        /\ pc' = [pc EXCEPT ![t] = "mark"]
                   ELSE /\ ingest_result' = ingest_result
                        /\ pc' = [pc EXCEPT ![t] = "insert"]
                /\ UNCHANGED <<idx, results>>
    /\ UNCHANGED <<lock, shared, processed_files, pdf_files, req, ret, counters>>
    /\ UNCHANGED <<marked, query_side>>

\* insert_documents(docs) inside ingest_pdf_bytes
LoopInsert(t) ==
    /\ pc[t] = "insert"
    /\ \E outcome \in InsertOutcomes :
         CASE outcome = "ok" ->
                /\ index' = CollectionInsert(index, docs[t])
                /\ inserts' = [inserts EXCEPT ![CurrentFile(t)] = @ + 1]
                /\ ingest_result' = [ingest_result EXCEPT ![t] =
                       [file_name |-> CurrentFile(t), chunks_indexed |-> Len(docs[t])]]
                /\ pc' = [pc EXCEPT ![t] = "mark"]
                /\ UNCHANGED <<idx, results, docs>>
           [] outcome = "raise" ->
                /\ RecordFailure(t, "insert error")
                /\ UNCHANGED <<index, inserts>>
    /\ UNCHANGED <<lock, raw_dir_exists, folder, tracker, processed_files,
                   pdf_files, req, ret, counters>>
    /\ UNCHANGED <<marked, query_side>>

\* mark_file_as_processed(file_name) and the bookkeeping after it
LoopMark(t) ==
    /\ pc[t] = "mark"
    /\ tracker' = MarkFileAsProcessed(tracker, CurrentFile(t))
    /\ results' = [results EXCEPT
                      ![t].processed = @ + 1,
                      ![t].files_processed =
                          Append(@, [file_name |-> CurrentFile(t),
                                     chunks_indexed |-> ingest_result[t].chunks_indexed])]
    /\ idx' = [idx EXCEPT ![t] = @ + 1]
    /\ docs' = [docs EXCEPT ![t] = <<>>]
    /\ ingest_result' = [ingest_result EXCEPT ![t] = NoIngestResult]
    /\ pc' = [pc EXCEPT ![t] = "loop"]
    /\ UNCHANGED <<lock, raw_dir_exists, folder, index, inserts, processed_files,
                   pdf_files, req, ret, counters>>
    /\ marked' = marked \cup {CurrentFile(t)}
    /\ UNCHANGED query_side

\* opening or writing the tracker raises: caught by the except clause
LoopMarkRaises(t) ==
    /\ pc[t] = "mark"
    /\ RecordFailure(t, "tracker write error")
    /\ UNCHANGED <<lock, shared, processed_files, pdf_files, req, ret, counters>>
    /\ UNCHANGED <<marked, query_side>>

\* the loop is over: return results, the finally clause releases the lock
ImplReturn(t) ==
    /\ pc[t] = "loop"
    /\ idx[t] > Len(pdf_files[t])
    /\ ret' = [ret EXCEPT ![t] = results[t]]
    /\ lock' = FALSE
    /\ pc' = [pc EXCEPT ![t] = "idle"]
    /\ DropLocals(t)
    /\ UNCHANGED <<shared, req, counters>>
    /\ UNCHANGED <<marked, query_side>>

---------------------------------------------------------------------------
(* The FastAPI handlers, run one at a time by the event loop *)

Http == "http"

\* POST /trigger_ingestion
TriggerIngestion == IngestFolder(Http)

\* the job the scheduler runs every interval
ScheduledIngestion == IngestFolder("sched")

\* POST /ingest_pdf: ingest_pdf_bytes on the uploaded bytes, up to the insert
IngestPdf(name, body) ==
    /\ pc[Http] = "idle"
    /\ nRequests < MaxRequests
    /\ nRequests' = nRequests + 1
    /\ IF ~IsPdfName(name)
       THEN /\ ret' = [ret EXCEPT ![Http] = [status |-> "http_error", status_code |-> 400]]
            /\ UNCHANGED <<pc, docs, req>>
       ELSE LET out == ParseAndChunk(body, name)
            IN  IF out.raised
                THEN /\ ret' = [ret EXCEPT ![Http] =
                                   [status |-> "http_error", status_code |-> 500]]
                     /\ UNCHANGED <<pc, docs, req>>
                ELSE IF out.docs = <<>>
                     THEN /\ ret' = [ret EXCEPT ![Http] =
                                [status |-> "ingested", file_name |-> name,
                                 chunks_indexed |-> 0]]
                          /\ UNCHANGED <<pc, docs, req>>
                     ELSE /\ docs' = [docs EXCEPT ![Http] = out.docs]
                          /\ req' = [name |-> name, body |-> body]
                          /\ pc' = [pc EXCEPT ![Http] = "pdf_insert"]
                          /\ ret' = [ret EXCEPT ![Http] = NoResult]
    /\ UNCHANGED <<lock, shared, processed_files, pdf_files, idx, results,
                   ingest_result, nCalls>>
    /\ UNCHANGED <<marked, query_side>>

\* POST /ingest_pdf: insert_documents(docs) and the response
IngestPdfInsert ==
    /\ pc[Http] = "pdf_insert"
    /\ \E outcome \in InsertOutcomes :
         CASE outcome = "ok" ->
                /\ index' = CollectionInsert(index, docs[Http])
                /\ inserts' = [inserts EXCEPT ![req.name] = @ + 1]
                /\ ret' = [ret EXCEPT ![Http] =
                       [status |-> "ingested", file_name |-> req.name,
                        chunks_indexed |-> Len(docs[Http])]]
           [] outcome = "raise" ->
                /\ ret' = [ret EXCEPT ![Http] =
                       [status |-> "http_error", status_code |-> 500]]
                /\ UNCHANGED <<index, inserts>>
    /\ docs' = [docs EXCEPT ![Http] = <<>>]
    /\ req' = NoRequest
    /\ pc' = [pc EXCEPT ![Http] = "idle"]
    /\ UNCHANGED <<lock, raw_dir_exists, folder, tracker, processed_files,
                   pdf_files, idx, results, ingest_result, counters>>
    /\ UNCHANGED <<marked, query_side>>

\* POST /upload_file up to open(file_path, "wb"), which creates the file,
\* and into the write, which has put none or some of the bytes into it
UploadFile(name, body) ==
    /\ pc[Http] = "idle"
    /\ nRequests < MaxRequests
    /\ nRequests' = nRequests + 1
    /\ IF ~IsPdfName(name)
       THEN /\ ret' = [ret EXCEPT ![Http] = [status |-> "http_error", status_code |-> 400]]
            /\ UNCHANGED <<raw_dir_exists, folder, pc, req>>
       ELSE /\ raw_dir_exists' = TRUE
            /\ IF folder[name] # Absent
               THEN /\ ret' = [ret EXCEPT ![Http] =
                                  [status |-> "http_error", status_code |-> 409]]
                    /\ UNCHANGED <<folder, pc, req>>
               ELSE /\ \E partial \in PartialContents(body) :
                         folder' = [folder EXCEPT ![name] = partial]
                    /\ req' = [name |-> name, body |-> body]
                    /\ pc' = [pc EXCEPT ![Http] = "upload_write"]
                    /\ ret' = [ret EXCEPT ![Http] = NoResult]
    /\ UNCHANGED <<lock, tracker, index, inserts, locals, nCalls>>
    /\ UNCHANGED <<marked, query_side>>

\* POST /upload_file: f.write(file_bytes) and the response
UploadWrite ==
    /\ pc[Http] = "upload_write"
    /\ folder' = [folder EXCEPT ![req.name] = req.body]
    /\ ret' = [ret EXCEPT ![Http] = [status |-> "uploaded", file_name |-> req.name]]
    /\ req' = NoRequest
    /\ pc' = [pc EXCEPT ![Http] = "idle"]
    /\ UNCHANGED <<lock, raw_dir_exists, tracker, index, inserts, locals, counters>>
    /\ UNCHANGED <<marked, query_side>>

---------------------------------------------------------------------------
(* The environment *)

\* somebody removes the (empty) raw files directory
RemoveRawDir ==
    /\ raw_dir_exists
    /\ \A n \in DOMAIN folder : folder[n] = Absent
    /\ pc[Http] = "idle"
    /\ raw_dir_exists' = FALSE
    /\ UNCHANGED <<lock, folder, tracker, index, inserts, pc, locals, req, ret,
                   counters>>
    /\ UNCHANGED <<marked, query_side>>

\* the process dies and is started again: threads, locals and the lock are
\* new, config.py creates the raw files directory, files and index remain
Restart ==
    /\ \E t \in Threads : pc[t] # "idle"
    /\ lock' = FALSE
    /\ raw_dir_exists' = TRUE
    /\ pc' = [t \in Threads |-> "idle"]
    /\ processed_files' = [t \in Threads |-> {}]
    /\ pdf_files' = [t \in Threads |-> <<>>]
    /\ idx' = [t \in Threads |-> 0]
    /\ results' = [t \in Threads |-> NoResult]
    /\ docs' = [t \in Threads |-> <<>>]
    /\ ingest_result' = [t \in Threads |-> NoIngestResult]
    /\ req' = NoRequest
    /\ ret' = [t \in Threads |-> NoResult]
    /\ UNCHANGED <<folder, tracker, index, inserts, counters>>
    /\ UNCHANGED <<marked, query_side>>

Next ==
    \/ ScheduledIngestion
    \/ TriggerIngestion
    \/ \E t \in Threads : ImplNoDirectory(t)
    \/ \E t \in Threads : ImplRaises(t)
    \/ \E t \in Threads : ImplStart(t)
    \/ \E t \in Threads : LoopSkip(t)
    \/ \E t \in Threads : LoopRead(t)
    \/ \E t \in Threads : LoopInsert(t)
    \/ \E t \in Threads : LoopMark(t)
    \/ \E t \in Threads : LoopMarkRaises(t)
    \/ \E t \in Threads : ImplReturn(t)
    \/ \E name \in Names, body \in Docs : IngestPdf(name, body)
    \/ IngestPdfInsert
    \/ \E name \in Names, body \in Docs : UploadFile(name, body)
    \/ UploadWrite
    \/ RemoveRawDir
    \/ Restart

Spec == Init /\ [][Next]_vars

---------------------------------------------------------------------------
(* Properties *)

Other(t) == IF t = "sched" THEN Http ELSE "sched"

\* the thread is inside _ingest_folder_impl
InImpl(t) == pc[t] \in {"impl", "loop", "insert", "mark"}

\* this step is a call of ingest_folder by t that returns "skipped"
Rejected(t) == nCalls'[t] = nCalls[t] + 1 /\ ret'[t].status = "skipped"

\* C1: of two overlapping ingest_folder calls one runs _ingest_folder_impl and
\* the other returns "skipped": the two threads are never both inside
\* _ingest_folder_impl, their latest calls are never both "skipped", and a call
\* is rejected only while the other thread is inside _ingest_folder_impl, whose
\* run the rejection leaves untouched.
C1_OneRunsOtherSkipped ==
    /\ [](~(InImpl("sched") /\ InImpl(Http)))
    /\ [](~(ret["sched"].status = "skipped" /\ ret[Http].status = "skipped"))
    /\ [][\A t \in Threads :
            Rejected(t) => /\ InImpl(Other(t))
                           /\ pc'[Other(t)] = pc[Other(t)]
                           /\ results'[Other(t)] = results[Other(t)]]_vars

\* a manual trigger was rejected while the scheduled run is in its loop
C1_Witness ==
    /\ ret[Http].status = "skipped"
    /\ pc["sched"] = "loop"
    /\ idx["sched"] = 2

\* C2: a call rejected by the held lock returns at once with "skipped" and
\* changes neither tracker, index, folder nor any run's locals; a thread whose
\* call was rejected is idle, and _ingest_folder_impl is only ever entered by
\* the step of a new call that finds the lock free.
C2_RejectedCallIsDropped ==
    /\ [](\A t \in Threads : ret[t].status = "skipped" => pc[t] = "idle")
    /\ [][\A t \in Threads :
            Rejected(t) => /\ lock /\ lock'
                           /\ pc'[t] = "idle"
                           /\ UNCHANGED <<shared, locals>>]_vars
    /\ [][\A t \in Threads :
            (~InImpl(t) /\ InImpl(t)') =>
                /\ nCalls'[t] = nCalls[t] + 1
                /\ ~lock /\ lock']_vars

\* the lock is free again after a call was rejected, and the rejected thread
\* is still idle with its "skipped" result
C2_Witness ==
    \E t \in Threads :
        /\ ret[t].status = "skipped"
        /\ ret[Other(t)].status = "success"
        /\ ~lock
        /\ pc[t] = "idle"

\* the candidates a finished run has put in one of its three lists
Listed(r) ==
    {r.files_processed[k].file_name : k \in 1..Len(r.files_processed)}
    \cup {r.files_skipped[k] : k \in 1..Len(r.files_skipped)}
    \cup {r.files_failed[k].file_name : k \in 1..Len(r.files_failed)}

\* C7: an exception while a file is processed is recorded in files_failed
\* with its error detail and the loop goes on with the next candidate; a run
\* returns its summary only when every candidate has been examined.
C7_FailureDoesNotAbortRun ==
    [][\A t \in Threads :
         /\ (pc[t] \in {"loop", "insert", "mark"}
             /\ pc'[t] \in {"loop", "insert", "mark"}
             /\ results'[t].failed = results[t].failed + 1) =>
                /\ pc'[t] = "loop"
                /\ idx'[t] = idx[t] + 1
                /\ pdf_files'[t] = pdf_files[t]
                /\ results'[t].files_failed # <<>>
                /\ LET e == results'[t].files_failed[Len(results'[t].files_failed)]
                   IN  e.file_name = CurrentFile(t) /\ e.error # ""
         /\ (pc[t] = "loop" /\ pc'[t] = "idle" /\ ret'[t].status = "success") =>
                \A k \in 1..Len(pdf_files[t]) : pdf_files[t][k] \in Listed(ret'[t])]_vars

\* the first candidate failed and the run went on to process the second
C7_Witness ==
    \E t \in Threads :
        /\ pc[t] = "loop"
        /\ idx[t] = 3
        /\ results[t].files_failed # <<>>
        /\ results[t].files_failed[1].file_name = pdf_files[t][1]
        /\ results[t].files_processed # <<>>
        /\ results[t].files_processed[1].file_name = pdf_files[t][2]


\* the names in the three lists of a summary
ProcessedNames(r) == {r.files_processed[k].file_name : k \in 1..Len(r.files_processed)}
SkippedNames(r) == {r.files_skipped[k] : k \in 1..Len(r.files_skipped)}
FailedNames(r) == {r.files_failed[k].file_name : k \in 1..Len(r.files_failed)}

\* this step is the return of a completed folder scan by t
Returns(t) == pc[t] = "loop" /\ pc'[t] = "idle" /\ ret'[t].status = "success"

\* C3: no file name ever has a second successful batch insert.
C3_EachPdfIndexedOnce == \A n \in PdfNames : inserts[n] <= 1

\* C4: mark_file_as_processed(name) is called only after a batch write of
\* name's chunks has returned successfully, so every name read back from the
\* tracker had a successful write before.
C4_MarkedOnlyAfterWrite ==
    [][\A t \in Threads :
         (pc[t] = "mark" /\ tracker' # tracker) =>
             /\ inserts[CurrentFile(t)] >= 1
             /\ \A n \in LoadProcessedFiles(tracker') : inserts[n] >= 1]_vars

\* the summary of an earlier folder scan: the one the other thread's latest
\* call returned, which ended before the run t is in took the lock
EarlierRun(t) == ret[Other(t)]

\* the files a summary reports as processed with chunks indexed
IndexedNames(r) ==
    {r.files_processed[k].file_name :
        k \in {j \in 1..Len(r.files_processed) : r.files_processed[j].chunks_indexed > 0}}

\* C5: a file an earlier run processed successfully (chunks_indexed > 0) is
\* listed by a later run under files_skipped and not under files_processed,
\* and the index is not written for it again.
C5_SecondRunSkipsProcessed ==
    [][\A t \in Threads :
         /\ (Returns(t) /\ EarlierRun(t).status = "success") =>
               \A f \in IndexedNames(EarlierRun(t)) :
                   f \in SkippedNames(ret'[t]) /\ f \notin ProcessedNames(ret'[t])
         /\ (pc[t] = "insert" /\ pc'[t] \in {"mark", "loop"}
             /\ EarlierRun(t).status = "success"
             /\ CurrentFile(t) \in IndexedNames(EarlierRun(t))) => index' = index]_vars

\* C6: for a source that yields zero chunks ingestion returns
\* chunks_indexed = 0 and touches neither the index nor the tracker.
C6_ZeroChunksTouchNothing ==
    [][\A t \in Threads :
         (pc[t] = "mark" /\ pc'[t] = "loop" /\ docs[t] = <<>>) =>
             /\ ingest_result[t].chunks_indexed = 0
             /\ index' = index
             /\ tracker' = tracker]_vars

\* C8: a file recorded as failed by a run is not in the tracker because of
\* that run, is attempted once in that run, and a later run attempts it again
\* instead of reporting it as skipped (as long as no run has marked it).
C8_FailedFileIsRetriedNextRun ==
    [][\A t \in Threads :
         /\ Returns(t) =>
               \A f \in FailedNames(ret'[t]) :
                   /\ f \in processed_files[t] \/ f \notin LoadProcessedFiles(tracker')
                   /\ f \notin ProcessedNames(ret'[t])
         /\ (Returns(t) /\ EarlierRun(t).status = "success") =>
               \A f \in FailedNames(EarlierRun(t)) \ marked :
                   f \notin SkippedNames(ret'[t])]_vars

\* C9: a page whose text extraction fails contributes no chunk and the other
\* pages of the source are still chunked: reading a PDF the reader can open
\* never fails the document, and leaves the chunks of its other pages in docs.
C9_PageFailureDoesNotAbortDocument ==
    [][\A t \in Threads :
         (/\ pc[t] = "loop" /\ idx[t] <= Len(pdf_files[t])
          /\ CurrentFile(t) \notin processed_files[t]
          /\ folder[CurrentFile(t)].kind = "pdf"
          /\ (pc'[t] \in {"insert", "mark"} \/ idx'[t] = idx[t] + 1)) =>
             /\ results'[t].failed = results[t].failed
             /\ docs'[t] = BuildDocs(CurrentFile(t), folder[CurrentFile(t)].pages, 0)]_vars

\* C10: once mark_file_as_processed(name) has returned, every later
\* load_processed_files() contains name, also after a restart.
C10_MarkedNamesAreLoaded == marked \subseteq LoadProcessedFiles(tracker)

\* the lines of the tracker file
TrackerLines == FileLines(tracker, <<>>)

\* C11: no line of the tracker file repeats an earlier one: each file name is
\* recorded at most once.
C11_NamesAppearOnce ==
    \A j, k \in 1..Len(TrackerLines) : j # k => TrackerLines[j] # TrackerLines[k]

---------------------------------------------------------------------------
(* load_processed_files on tracker files as a text editor or a write that  *)
(* was cut short can leave them                                            *)

\* complete lines the tracker file may hold
MaxLines == 2

\* a complete line: a name written by mark_file_as_processed, or a blank line
CompleteLines == {NameA \o <<NL>>, NameSpA \o <<NL>>, <<NL>>, <<SP, NL>>}

\* the files made of n complete lines
RECURSIVE LinesOf(_)
LinesOf(n) ==
    IF n = 0 THEN {<<>>}
    ELSE {l \o c : l \in CompleteLines, c \in LinesOf(n - 1)}

\* what f.write(f"{file_name}\n") leaves at the end of the file when the
\* process dies or the disk fills up before the whole line is out
PartialWrites == {SubSeq(NameA \o <<NL>>, 1, k) : k \in 0..Len(NameA)}

TrackerContents ==
    {c \o p : c \in UNION {LinesOf(n) : n \in 0..MaxLines}, p \in PartialWrites}

\* the process starts with any such tracker file and an empty raw files folder
LoadInit ==
    /\ lock = FALSE
    /\ raw_dir_exists = TRUE
    /\ folder = [n \in PdfNames |-> Absent]
    /\ tracker \in TrackerContents
    /\ index = EmptyBag
    /\ pc = [t \in Threads |-> "idle"]
    /\ processed_files = [t \in Threads |-> {}]
    /\ pdf_files = [t \in Threads |-> <<>>]
    /\ idx = [t \in Threads |-> 0]
    /\ results = [t \in Threads |-> NoResult]
    /\ docs = [t \in Threads |-> <<>>]
    /\ ingest_result = [t \in Threads |-> NoIngestResult]
    /\ req = NoRequest
    /\ ret = [t \in Threads |-> NoResult]
    /\ nCalls = [t \in Threads |-> 0]
    /\ nRequests = 0
    /\ inserts = [n \in PdfNames |-> 0]
    /\ marked = {}
    /\ has_collection = TRUE
    /\ sparse_order = <<>>
    /\ query = NoQuery
    /\ retrieved_docs = <<>>
    /\ llm = NoLlm

\* folder scans that load the tracker, find no PDF and return
LoadNext ==
    \/ ScheduledIngestion
    \/ TriggerIngestion
    \/ \E t \in Threads : ImplStart(t)
    \/ \E t \in Threads : ImplReturn(t)

LoadSpec == LoadInit /\ [][LoadNext]_vars

\* the names on the lines of the file that end with "\n", blank lines left out
CompleteNames(content) ==
    LET lines == FileLines(content, <<>>)
    IN  {Strip(lines[k]) :
            k \in {j \in 1..Len(lines) :
                     lines[j][Len(lines[j])] = NL /\ Strip(lines[j]) # <<>>}}

\* C12: the set load_processed_files returns holds the names of the complete
\* lines only: a partially written trailing line and blank lines are left out.
C12_PartialTrailingLineIgnored ==
    \A t \in Threads : pc[t] = "loop" => processed_files[t] = CompleteNames(tracker)

---------------------------------------------------------------------------
(* Retrieval (app/retrieval.py) and answering (app/rag_chain.py) *)

\* chunks the two ingested files have, in total
MaxRecords == 3
\* largest top_k a caller asks for
MaxTopK == 2

\* retrieval.py, lines 16-18; the weights as fractions <<numerator, denominator>>
DENSE_WEIGHT == <<3, 5>>
SPARSE_WEIGHT == <<2, 5>>
RRF_K == 60

\* The chunks are numbered by their cosine similarity to the question, chunk 1
\* being the most similar; odd chunks come from one file, even ones from another.
Chunks == 1..MaxRecords
FileOf(k) == IF k % 2 = 1 THEN NameA ELSE NameSpA
Record(k) == [chunk_id |-> k, file_name |-> FileOf(k)]

\* the batch ingest_pdf_bytes builds for a file
BatchOf(file_name) ==
    LET ks == {k \in Chunks : FileOf(k) = file_name}
        RECURSIVE Asc(_)
        Asc(S) == IF S = {} THEN <<>>
                  ELSE LET m == CHOOSE x \in S : \A y \in S : x <= y
                       IN  <<Record(m)>> \o Asc(S \ {m})
    IN  Asc(ks)

\* the chunk ids of the rows in the collection
Stored(collection) == {r.chunk_id : r \in BagToSet(collection)}

\* sequences without repetition over a set
Orderings(S) == UNION {Listings(T) : T \in SUBSET S}

(* The filter expression *)

Quote == "\""
FieldName == <<"f", "i", "l", "e", "_", "n", "a", "m", "e">>
EqOp == <<SP, "=", "=", SP>>
NeOp == <<SP, "!", "=", SP>>
OrOp == <<SP, "o", "r", SP>>

\* file_name_filter values a caller passes: None, "", a file name, and two
\* values that contain a double quote
EmptyFilter == [given |-> TRUE, value |-> <<>>]
FilterA == [given |-> TRUE, value |-> NameA]
FilterQuoteOr ==
    [given |-> TRUE,
     value |-> NameA \o <<Quote>> \o OrOp \o FieldName \o NeOp \o <<Quote>>]
FilterQuote == [given |-> TRUE, value |-> <<"a", Quote>>]
Filters == {NoFilter, EmptyFilter, FilterA, FilterQuoteOr, FilterQuote}

\* `if file_name_filter`
Truthy(f) == f.given /\ f.value # <<>>

\* f'file_name == "{file_name_filter}"' if file_name_filter else ""
FilterExpr(f) ==
    IF Truthy(f) THEN FieldName \o EqOp \o <<Quote>> \o f.value \o <<Quote>>
    ELSE <<>>

StartsWith(s, prefix) == Len(s) >= Len(prefix) /\ SubSeq(s, 1, Len(prefix)) = prefix
Drop(s, n) == SubSeq(s, n + 1, Len(s))

RECURSIVE FirstQuote(_, _)
FirstQuote(s, k) ==
    IF k > Len(s) THEN 0 ELSE IF s[k] = Quote THEN k ELSE FirstQuote(s, k + 1)

ParseError == [ok |-> FALSE, clauses |-> <<>>]

\* Milvus parsing a boolean expression made of comparisons of file_name with
\* string literals, joined by "or"
RECURSIVE ParseExpr(_)
ParseExpr(s) ==
    LET op == IF StartsWith(s, FieldName \o EqOp \o <<Quote>>) THEN "=="
              ELSE IF StartsWith(s, FieldName \o NeOp \o <<Quote>>) THEN "!="
              ELSE "none"
        body == Drop(s, Len(FieldName) + Len(EqOp) + 1)
        q == FirstQuote(body, 1)
        rest == Drop(body, q)
        clause == [op |-> op, value |-> SubSeq(body, 1, q - 1)]
    IN  IF op = "none" \/ q = 0 THEN ParseError
        ELSE IF rest = <<>> THEN [ok |-> TRUE, clauses |-> <<clause>>]
        ELSE IF StartsWith(rest, OrOp)
             THEN LET more == ParseExpr(Drop(rest, Len(OrOp)))
                  IN  IF more.ok
                      THEN [ok |-> TRUE, clauses |-> <<clause>> \o more.clauses]
                      ELSE ParseError
             ELSE ParseError

\* the expression is empty or Milvus can parse it
ValidExpr(expr) == expr = <<>> \/ ParseExpr(expr).ok

\* a row passes the expression of a search request
Matches(expr, k) ==
    \/ expr = <<>>
    \/ LET cs == ParseExpr(expr).clauses
       IN  \E c \in 1..Len(cs) :
              \/ cs[c].op = "==" /\ FileOf(k) = cs[c].value
              \/ cs[c].op = "!=" /\ FileOf(k) # cs[c].value

(* The searches *)

\* the first n elements of a sequence
Take(s, n) == SubSeq(s, 1, IF n < Len(s) THEN n ELSE Len(s))

\* the elements of a sequence that are in a set, in order
RECURSIVE Restrict(_, _)
Restrict(s, S) ==
    IF s = <<>> THEN <<>>
    ELSE (IF Head(s) \in S THEN <<Head(s)>> ELSE <<>>) \o Restrict(Tail(s), S)

\* 1..n as a sequence
Ascending(n) == [k \in 1..n |-> k]

\* an AnnSearchRequest on "vector": the stored rows that pass expr, most
\* similar first, at most limit of them
DenseSearch(collection, expr, limit) ==
    Take(Restrict(Ascending(MaxRecords),
                  {k \in Stored(collection) : Matches(expr, k)}), limit)

\* an AnnSearchRequest on "sparse_vector"
SparseSearch(collection, order, expr, limit) ==
    Take(Restrict(order, {k \in Stored(collection) : Matches(expr, k)}), limit)

\* 1-based rank of k in a list, 0 when it is not in the list
RankIn(list, k) ==
    IF \E p \in 1..Len(list) : list[p] = k
    THEN CHOOSE p \in 1..Len(list) : list[p] = k
    ELSE 0

\* fractions <<numerator, denominator>>
AddQ(a, b) == <<a[1] * b[2] + b[1] * a[2], a[2] * b[2]>>
LessQ(a, b) == a[1] * b[2] < b[1] * a[2]
EqualQ(a, b) == a[1] * b[2] = b[1] * a[2]

\* what a list adds to the score of k under a weight
Contribution(weight, list, k) ==
    IF RankIn(list, k) = 0 THEN <<0, 1>>
    ELSE <<weight[1], weight[2] * (RRF_K + RankIn(list, k))>>

\* RRFRanker(k=RRF_K): every list counts the same
RRFScore(dense, sparse, k) ==
    AddQ(Contribution(<<1, 1>>, dense, k), Contribution(<<1, 1>>, sparse, k))

\* the orders Milvus can return the best `limit` candidates in: descending
\* score, candidates of equal score in any order
TopByScore(candidates, score, limit) ==
    LET n == IF limit < Cardinality(candidates) THEN limit
             ELSE Cardinality(candidates)
    IN  {r \in [1..n -> candidates] :
            /\ \A a, b \in 1..n : a < b =>
                   r[a] # r[b] /\ ~LessQ(score[r[a]], score[r[b]])
            /\ \A c \in candidates :
                   (\A a \in 1..n : r[a] # c) =>
                       \A a \in 1..n : ~LessQ(score[r[a]], score[c])}

\* the formatted hits of collection.hybrid_search(reqs, rerank, limit=top_k)
HybridResults(collection, order, q) ==
    LET expr == FilterExpr(q.file_name_filter)
        dense == DenseSearch(collection, expr, q.top_k * 2)
        sparse == SparseSearch(collection, order, expr, q.top_k * 2)
        candidates == {dense[p] : p \in 1..Len(dense)}
                      \cup {sparse[p] : p \in 1..Len(sparse)}
        score == [k \in candidates |-> RRFScore(dense, sparse, k)]
    IN  {[p \in 1..Len(r) |->
            [chunk_id |-> r[p], file_name |-> FileOf(r[p]),
             score |-> score[r[p]], search_method |-> "hybrid_milvus"]] :
         r \in TopByScore(candidates, score, q.top_k)}

\* the cosine score Milvus reports for a chunk
Cosine(k) == <<MaxRecords + 1 - k, MaxRecords + 1>>

\* the formatted results of similarity_search_with_score(query, k=top_k, ...)
DenseResults(collection, q) ==
    LET expr == FilterExpr(q.file_name_filter)
        dense == DenseSearch(collection, expr, q.top_k)
    IN  [p \in 1..Len(dense) |->
            [chunk_id |-> dense[p], file_name |-> FileOf(dense[p]),
             score |-> Cosine(dense[p]), search_method |-> "dense_only"]]

(* query_docs and answer_question, served by the event loop *)

\* the variables of the ingestion side that retrieval does not touch
ingestion_side == <<lock, raw_dir_exists, folder, tracker, processed_files,
                    pdf_files, idx, results, docs, ingest_result, req, nCalls,
                    nRequests, marked>>

Question == "question"

NoInformation == "I couldn't find any relevant information"

\* the process after startup: lifespan has run ensure_collection_exists, and
\* BM25 gives some of the chunks a score for the question, in some order
QueryInit ==
    /\ lock = FALSE
    /\ raw_dir_exists = TRUE
    /\ folder = [n \in PdfNames |-> Absent]
    /\ tracker = <<>>
    /\ index = EmptyBag
    /\ pc = [t \in Threads |-> "idle"]
    /\ processed_files = [t \in Threads |-> {}]
    /\ pdf_files = [t \in Threads |-> <<>>]
    /\ idx = [t \in Threads |-> 0]
    /\ results = [t \in Threads |-> NoResult]
    /\ docs = [t \in Threads |-> <<>>]
    /\ ingest_result = [t \in Threads |-> NoIngestResult]
    /\ req = NoRequest
    /\ ret = [t \in Threads |-> NoResult]
    /\ nCalls = [t \in Threads |-> 0]
    /\ nRequests = 0
    /\ inserts = [n \in PdfNames |-> 0]
    /\ marked = {}
    /\ has_collection = TRUE
    /\ sparse_order \in Orderings(Chunks)
    /\ query = NoQuery
    /\ retrieved_docs = <<>>
    /\ llm = NoLlm

\* a call of query_docs begins; answer_question calls it with use_hybrid = True
QueryDocs(caller, top_k, file_name_filter, use_hybrid) ==
    /\ pc[Http] = "idle"
    /\ query' = [caller |-> caller, top_k |-> top_k,
                 file_name_filter |-> file_name_filter,
                 use_hybrid |-> use_hybrid, fell_back |-> FALSE]
    /\ pc' = [pc EXCEPT ![Http] = IF use_hybrid THEN "hybrid" ELSE "dense"]
    /\ ret' = [ret EXCEPT ![Http] = NoResult]
    /\ retrieved_docs' = <<>>
    /\ llm' = NoLlm
    /\ UNCHANGED <<ingestion_side, index, inserts, has_collection, sparse_order>>

\* answer_question up to its call of query_docs
AnswerQuestion(top_k, file_name_filter) ==
    QueryDocs("answer_question", top_k, file_name_filter, TRUE)

\* query_docs returns value: to the handler of /query, or into the local
\* retrieved_docs of answer_question
QueryReturn(value) ==
    IF query.caller = "answer_question"
    THEN /\ retrieved_docs' = value
         /\ pc' = [pc EXCEPT ![Http] = "answer"]
         /\ ret' = ret
    ELSE /\ ret' = [ret EXCEPT ![Http] = [status |-> "returned", value |-> value]]
         /\ pc' = [pc EXCEPT ![Http] = "idle"]
         /\ retrieved_docs' = retrieved_docs

\* an exception leaves query_docs, and answer_question if that is the caller
QueryRaise ==
    /\ ret' = [ret EXCEPT ![Http] = [status |-> "raised"]]
    /\ pc' = [pc EXCEPT ![Http] = "idle"]
    /\ retrieved_docs' = retrieved_docs

\* an except clause that ends the call instead of falling back
FallbackEndsCall == "idle"

\* where the except clause of query_docs continues: the dense-only branch
Fallback == "dense"

\* the try block of query_docs: hybrid_search_milvus returns its results, or
\* raises (no collection, an expression Milvus cannot parse, Milvus or the
\* embedding model failing) and the except clause falls back
HybridSearchMilvus ==
    /\ pc[Http] = "hybrid"
    /\ \/ /\ has_collection
          /\ ValidExpr(FilterExpr(query.file_name_filter))
          /\ \E r \in HybridResults(index, sparse_order, query) : QueryReturn(r)
          /\ query' = query
       \/ /\ pc' = [pc EXCEPT ![Http] = Fallback]
          /\ query' = [query EXCEPT !.use_hybrid = FALSE, !.fell_back = TRUE]
          /\ UNCHANGED <<ret, retrieved_docs>>
    /\ UNCHANGED <<ingestion_side, index, inserts, has_collection, sparse_order, llm>>

\* the dense-only branch of query_docs: get_vectorstore(), which runs
\* ensure_collection_exists(), then similarity_search_with_score; connecting
\* to Milvus or embedding the query can raise before anything is done
DenseOnly ==
    /\ pc[Http] = "dense"
    /\ \/ /\ has_collection' = TRUE
          /\ IF ValidExpr(FilterExpr(query.file_name_filter))
             THEN QueryReturn(DenseResults(index, query))
             ELSE QueryRaise
       \/ /\ QueryRaise
          /\ has_collection' = has_collection
    /\ UNCHANGED <<ingestion_side, index, inserts, sparse_order, query, llm>>

\* the sources list answer_question builds from retrieved_docs
Sources(retrieved) ==
    [p \in 1..Len(retrieved) |->
        [file_name |-> retrieved[p].file_name, score |-> retrieved[p].score,
         chunk_id |-> retrieved[p].chunk_id]]

\* a test that never takes the short cut
NeverEmpty(retrieved) == FALSE

\* `if not retrieved_docs`
NotDocs(retrieved) == retrieved = <<>>

\* answer_question after query_docs has returned
AnswerGenerate ==
    /\ pc[Http] = "answer"
    /\ IF NotDocs(retrieved_docs)
       THEN /\ ret' = [ret EXCEPT ![Http] =
                          [status |-> "returned",
                           value |-> [answer |-> NoInformation,
                                      sources |-> <<>>,
                                      question |-> Question]]]
            /\ llm' = llm
       ELSE /\ llm' = [created |-> llm.created + 1, invoked |-> llm.invoked + 1]
            /\ \/ ret' = [ret EXCEPT ![Http] =
                             [status |-> "returned",
                              value |-> [answer |-> "generated",
                                         sources |-> Sources(retrieved_docs),
                                         question |-> Question,
                                         num_sources |-> Len(Sources(retrieved_docs))]]]
               \/ ret' = [ret EXCEPT ![Http] = [status |-> "raised"]]
    /\ pc' = [pc EXCEPT ![Http] = "idle"]
    /\ retrieved_docs' = <<>>
    /\ UNCHANGED <<ingestion_side, index, inserts, has_collection, sparse_order, query>>

\* the scheduler's folder scan writes the batch of one file
InsertBatch(file_name) ==
    /\ has_collection
    /\ inserts[file_name] = 0
    /\ BatchOf(file_name) # <<>>
    /\ index' = CollectionInsert(index, BatchOf(file_name))
    /\ inserts' = [inserts EXCEPT ![file_name] = 1]
    /\ UNCHANGED <<ingestion_side, pc, ret, query_side>>

\* python -m app.manage_collection --drop
DropCollection ==
    /\ has_collection
    /\ has_collection' = FALSE
    /\ index' = EmptyBag
    /\ UNCHANGED <<ingestion_side, pc, ret, inserts, sparse_order, query,
                   retrieved_docs, llm>>

QueryNext ==
    \/ \E top_k \in 1..MaxTopK, f \in Filters, use_hybrid \in BOOLEAN :
           QueryDocs("query_docs", top_k, f, use_hybrid)
    \/ \E top_k \in 1..MaxTopK, f \in Filters : AnswerQuestion(top_k, f)
    \/ HybridSearchMilvus
    \/ DenseOnly
    \/ AnswerGenerate
    \/ \E file_name \in PdfNames : InsertBatch(file_name)
    \/ DropCollection

QuerySpec == QueryInit /\ [][QueryNext]_vars

---------------------------------------------------------------------------
(* Properties of retrieval and answering *)

\* this step ends the query_docs call in progress
QueryEnds == pc[Http] \in {"hybrid", "dense"} /\ pc'[Http] \in {"idle", "answer"}

\* this step ends the query_docs call with an exception
QueryRaised == QueryEnds /\ ret'[Http].status = "raised"

\* this step ends the query_docs call with a result
QueryReturned ==
    QueryEnds /\ (pc'[Http] = "answer" \/ ret'[Http].status = "returned")

\* what the query_docs call returns in this step
Delivered ==
    IF query.caller = "answer_question" THEN retrieved_docs' ELSE ret'[Http].value

\* every record of a result carries the tag
Tagged(value, method) == \A p \in 1..Len(value) : value[p].search_method = method

\* this step is the dense-only branch finishing a call that fell back
FallbackEnds == pc[Http] = "dense" /\ query.fell_back /\ QueryEnds

\* C13 as stated: whenever the hybrid search raises, query_docs returns the
\* dense-only result, tagged dense_only, and no exception leaves it.
C13_FallbackAlwaysReturns ==
    [][/\ (pc[Http] = "hybrid" /\ pc'[Http] # "hybrid" /\ ~QueryEnds) =>
              pc'[Http] = "dense"
       /\ FallbackEnds =>
              /\ QueryReturned
              /\ Delivered = DenseResults(index, query)
              /\ Tagged(Delivered, "dense_only")]_vars

\* C13: an error of the hybrid search never leaves query_docs: the call goes
\* on with the dense-only branch, and a call that fell back either raises the
\* error of the dense-only search or returns what the dense-only search returns
\* for the same top_k and filter, every record tagged dense_only.
C13_FallbackActsAsDenseOnly ==
    [][/\ (pc[Http] = "hybrid" /\ pc'[Http] \notin {"hybrid", "dense"}) =>
              /\ QueryReturned
              /\ Tagged(Delivered, "hybrid_milvus")
       /\ (pc[Http] = "hybrid" /\ pc'[Http] = "dense") =>
              /\ query'.fell_back /\ ~query'.use_hybrid
              /\ query'.top_k = query.top_k
              /\ query'.file_name_filter = query.file_name_filter
       /\ FallbackEnds => QueryReturned \/ QueryRaised
       /\ (FallbackEnds /\ QueryReturned) =>
              /\ Delivered = DenseResults(index, [query EXCEPT !.fell_back = FALSE])
              /\ Tagged(Delivered, "dense_only")
              /\ Len(Delivered) <= query.top_k]_vars

\* a call with a filter fell back and returned dense-only records
C13_Witness ==
    /\ pc[Http] = "idle"
    /\ query.caller = "query_docs"
    /\ query.fell_back
    /\ query.file_name_filter = FilterA
    /\ ret[Http].status = "returned"
    /\ Len(ret[Http].value) = 2
    /\ Tagged(ret[Http].value, "dense_only")

\* C14: a query_docs call with a file filter returns only records whose file
\* name is the filter value, from the hybrid search, the dense-only search and
\* the fallback alike; the hybrid result is the fusion of the two lists as
\* filtered by the search requests.
C14_ResultsMatchFilter ==
    [][(QueryReturned /\ Truthy(query.file_name_filter)) =>
           /\ \A p \in 1..Len(Delivered) :
                  Delivered[p].file_name = query.file_name_filter.value
           /\ pc[Http] = "hybrid" =>
                  Delivered \in HybridResults(index, sparse_order, query)]_vars

\* the fused score the weights of retrieval.py give chunk k
WeightedScore(dense, sparse, k) ==
    AddQ(Contribution(DENSE_WEIGHT, dense, k), Contribution(SPARSE_WEIGHT, sparse, k))

\* the chunk ids of a result, in order
ChunkIds(value) == [p \in 1..Len(value) |-> value[p].chunk_id]

\* C15: a hybrid result is made from the two lists fetched with limit
\* top_k * 2: each record's score is the sum of weight / (RRF_K + rank) over
\* the lists that contain it, the dense weight being the greater, and the
\* records are the top_k candidates in descending order of that score.
C15_WeightedRrfFusion ==
    [][(pc[Http] = "hybrid" /\ QueryReturned) =>
           LET expr == FilterExpr(query.file_name_filter)
               dense == DenseSearch(index, expr, query.top_k * 2)
               sparse == SparseSearch(index, sparse_order, expr, query.top_k * 2)
               candidates == {dense[p] : p \in 1..Len(dense)}
                             \cup {sparse[p] : p \in 1..Len(sparse)}
               score == [k \in candidates |-> WeightedScore(dense, sparse, k)]
           IN  /\ LessQ(SPARSE_WEIGHT, DENSE_WEIGHT)
               /\ Len(Delivered) <= query.top_k
               /\ ChunkIds(Delivered) \in TopByScore(candidates, score, query.top_k)
               /\ \A p \in 1..Len(Delivered) :
                      EqualQ(Delivered[p].score, score[Delivered[p].chunk_id])]_vars

\* this step is answer_question returning or raising after retrieval
AnswerEnds == pc[Http] = "answer" /\ pc'[Http] = "idle"

\* C16: when query_docs returned no record, answer_question returns the fixed
\* "no relevant information" answer with an empty sources list, and in that
\* call the chain is neither created nor invoked.
C16_ZeroResultsSkipLlm ==
    [][(AnswerEnds /\ retrieved_docs = <<>>) =>
           /\ ret'[Http].status = "returned"
           /\ ret'[Http].value.answer = NoInformation
           /\ ret'[Http].value.sources = <<>>
           /\ llm = NoLlm /\ llm' = NoLlm]_vars

\* chunks are stored, the filter of the question let none of them through
\* and the fixed answer was returned
C16_Witness ==
    /\ pc[Http] = "idle"
    /\ query.caller = "answer_question"
    /\ index # EmptyBag
    /\ ret[Http].status = "returned"
    /\ ret[Http].value.answer = NoInformation
    /\ llm = NoLlm

\* the four fields of the answer contract
AnswerFields == {"answer", "sources", "question", "num_sources"}

\* C17: every value answer_question returns has the four fields answer,
\* sources, question and num_sources, after an empty retrieval as well as after
\* a generated answer; num_sources is the length of sources and the sources
\* follow the order of the retrieved records.
C17_AnswerHasFourFields ==
    [][(AnswerEnds /\ ret'[Http].status = "returned") =>
           LET value == ret'[Http].value
           IN  /\ AnswerFields \subseteq DOMAIN value
               /\ value.num_sources = Len(value.sources)
               /\ value.question = Question
               /\ Len(value.sources) = Len(retrieved_docs)
               /\ \A p \in 1..Len(retrieved_docs) :
                      value.sources[p].chunk_id = retrieved_docs[p].chunk_id]_vars

---------------------------------------------------------------------------
(* Further properties of ingestion *)

\* C18: ingesting a source whose pages yield n > 0 chunks returns
\* chunks_indexed = n, and when that call has returned the tracker holds the
\* file name: for POST /ingest_pdf as for a file the folder scan processed.
C18_IngestReturnsCountAndTracks ==
    [][/\ (pc[Http] = "pdf_insert" /\ ret'[Http].status = "ingested") =>
              /\ ret'[Http].chunks_indexed = Len(BuildDocs(req.name, req.body.pages, 0))
              /\ ret'[Http].chunks_indexed > 0
              /\ req.name \in LoadProcessedFiles(tracker')
       /\ \A t \in Threads :
              (pc[t] = "mark" /\ results'[t].processed = results[t].processed + 1
               /\ ingest_result[t].chunks_indexed > 0) =>
                  /\ ingest_result[t].chunks_indexed
                         = Len(BuildDocs(CurrentFile(t), folder[CurrentFile(t)].pages, 0))
                  /\ CurrentFile(t) \in LoadProcessedFiles(tracker')]_vars

\* C20: the lock is free whenever no thread is inside _ingest_folder_impl:
\* every step that leaves it (the summary, the "directory does not exist"
\* status, an exception) frees the lock, and a call is rejected only while the
\* other thread is still inside.
C20_LockFreeWhenNoRun ==
    /\ []((\A t \in Threads : ~InImpl(t)) => ~lock)
    /\ [][\A t \in Threads :
            /\ (InImpl(t) /\ ~InImpl(t)') => ~lock'
            /\ Rejected(t) => InImpl(Other(t))]_vars

\* a run ended with the "directory does not exist" status and a later call
\* of the other thread has taken the lock
C20_Witness ==
    /\ ret[Http].status = "error"
    /\ pc["sched"] = "impl"
    /\ lock

\* the three lists of a summary hold n names in all, no name twice
ListsPartition(r, n) ==
    /\ Cardinality(ProcessedNames(r)) = Len(r.files_processed)
    /\ Cardinality(SkippedNames(r)) = Len(r.files_skipped)
    /\ Cardinality(FailedNames(r)) = Len(r.files_failed)
    /\ ProcessedNames(r) \cap SkippedNames(r) = {}
    /\ ProcessedNames(r) \cap FailedNames(r) = {}
    /\ SkippedNames(r) \cap FailedNames(r) = {}
    /\ r.processed = Len(r.files_processed)
    /\ r.skipped = Len(r.files_skipped)
    /\ r.failed = Len(r.files_failed)
    /\ r.processed + r.skipped + r.failed = n

\* C21: in the summary a completed folder scan returns, every candidate
\* listed by glob is in exactly one of files_processed, files_skipped and
\* files_failed, the three counters are the lengths of the lists and add up
\* to the number of candidates; while the loop runs the same holds of the
\* candidates examined so far.
C21_SummaryPartitionsCandidates ==
    /\ [](\A t \in Threads :
            pc[t] = "loop" =>
                /\ ListsPartition(results[t], idx[t] - 1)
                /\ Listed(results[t]) = {pdf_files[t][k] : k \in 1..(idx[t] - 1)})
    /\ [][\A t \in Threads :
            Returns(t) =>
                /\ ListsPartition(ret'[t], Len(pdf_files[t]))
                /\ Listed(ret'[t]) = {pdf_files[t][k] : k \in 1..Len(pdf_files[t])}]_vars

\* a run over two candidates returned a summary that lists one as skipped
\* and the other as processed or failed
C21_Witness ==
    \E t \in Threads :
        /\ pc[t] = "idle"
        /\ ret[t].status = "success"
        /\ ret[t].skipped = 1
        /\ ret[t].processed + ret[t].failed = 1

\* /upload_file has created the file and has not finished writing it
UploadInProgress(file_name) == pc[Http] = "upload_write" /\ req.name = file_name

\* this step is t reading the file its loop is at and running ingest_pdf_bytes
\* on the bytes, up to the insert
ReadsCurrentFile(t) ==
    /\ pc[t] = "loop" /\ idx[t] <= Len(pdf_files[t])
    /\ CurrentFile(t) \notin processed_files[t]
    /\ pc'[t] \in {"insert", "mark"} \/ idx'[t] = idx[t] + 1

\* C22: the folder scan reads a file that /upload_file puts into the raw
\* files folder only when the upload has written all of it, and never marks a
\* file processed while its upload is still writing.
C22_ScanReadsFinishedUploads ==
    [][\A t \in Threads :
         /\ ReadsCurrentFile(t) => ~UploadInProgress(CurrentFile(t))
         /\ (pc[t] = "mark" /\ tracker' # tracker) =>
                ~UploadInProgress(CurrentFile(t))]_vars

---------------------------------------------------------------------------
(* The interval job running for ever over a folder nobody adds files to.
   Reading, embedding, inserting and the write of the tracker succeed
   whenever they can: the insert raises only when the collection is full,
   the write of the tracker only when the tracker file is. *)

\* lines the tracker file can hold
MaxTrackerLines == 3

\* rows the collection can hold
MaxRows == 4

\* the files in the folder when the application starts
LiveInit ==
    /\ lock = FALSE
    /\ raw_dir_exists = TRUE
    /\ folder \in [PdfNames -> {Absent} \cup Docs]
    /\ tracker = <<>>
    /\ index = EmptyBag
    /\ pc = [t \in Threads |-> "idle"]
    /\ processed_files = [t \in Threads |-> {}]
    /\ pdf_files = [t \in Threads |-> <<>>]
    /\ idx = [t \in Threads |-> 0]
    /\ results = [t \in Threads |-> NoResult]
    /\ docs = [t \in Threads |-> <<>>]
    /\ ingest_result = [t \in Threads |-> NoIngestResult]
    /\ req = NoRequest
    /\ ret = [t \in Threads |-> NoResult]
    /\ nCalls = [t \in Threads |-> 0]
    /\ nRequests = 0
    /\ inserts = [n \in PdfNames |-> 0]
    /\ marked = {}
    /\ has_collection = TRUE
    /\ sparse_order = <<>>
    /\ query = NoQuery
    /\ retrieved_docs = <<>>
    /\ llm = NoLlm

\* the interval trigger fires: the scheduler thread calls ingest_folder
LiveScheduled ==
    /\ AcquireOrSkip("sched")
    /\ UNCHANGED <<shared, locals, req, counters>>
    /\ UNCHANGED <<marked, query_side>>

\* insert_documents(docs): writes the batch when the collection has room
LiveInsert ==
    /\ LoopInsert("sched")
    /\ (index' # index) <=>
           (BagCardinality(CollectionInsert(index, docs["sched"])) <= MaxRows)

\* mark_file_as_processed(file_name) when the tracker file has room
LiveMark ==
    /\ LoopMark("sched")
    /\ Len(FileLines(tracker', <<>>)) <= MaxTrackerLines

\* mark_file_as_processed(file_name) raises when the tracker file is full
LiveMarkRaises ==
    /\ LoopMarkRaises("sched")
    /\ Len(FileLines(tracker, <<>>)) >= MaxTrackerLines

LiveNext ==
    \/ LiveScheduled
    \/ ImplStart("sched")
    \/ LoopSkip("sched")
    \/ LoopRead("sched")
    \/ LiveInsert
    \/ LiveMark
    \/ LiveMarkRaises
    \/ ImplReturn("sched")

\* the interval trigger keeps firing and the scheduler thread keeps running
\* the job it was given
LiveSpec == LiveInit /\ [][LiveNext]_vars /\ WF_vars(LiveNext)

\* the file is in the raw files folder
Present(file_name) == folder[file_name] # Absent

\* ingest_pdf_bytes gets through the bytes of the file without raising
CanSucceed(file_name) ==
    Present(file_name) /\ ~ParseAndChunk(folder[file_name], file_name).raised

\* mark_file_as_processed has written the line of the file into the tracker
Recorded(file_name) ==
    \E k \in 1..Len(TrackerLines) : TrackerLines[k] = file_name \o <<NL>>

\* the files a run starting now would not skip, of those that can succeed
StillToProcess ==
    {n \in GlobPdf({f \in PdfNames : Present(f)}) :
        CanSucceed(n) /\ n \notin LoadProcessedFiles(tracker)}

\* C23: with the scheduler running ingest_folder again and again, every PDF
\* in the folder that can be extracted and indexed is eventually recorded in
\* the tracker; a run never reads a file again that the tracker records, it
\* skips it; and the set of files still to be processed eventually is empty
\* and stays empty.
C23_EveryFileEndsUpSkipped ==
    /\ \A f \in PdfNames : CanSucceed(f) ~> Recorded(f)
    /\ [][\A t \in Threads :
            ReadsCurrentFile(t) => ~Recorded(CurrentFile(t))]_vars
    /\ <>[](StillToProcess = {})

---------------------------------------------------------------------------
(* Further properties of retrieval *)

\* this step belongs to a query_docs or answer_question call
QueryStep == pc'[Http] # pc[Http]

\* C19: no step of query_docs or answer_question, in hybrid mode, in
\* dense-only mode or on the fallback path, creates or drops the collection or
\* changes its rows.
C19_QueriesAreReadOnly ==
    [][QueryStep => UNCHANGED <<has_collection, index>>]_vars

====
